---------------------------- MODULE Spec2Model ----------------------------
(***************************************************************************)
(* Model of substream/srt_utils.py: the pull-based pipeline                *)
(*   words -> _words_to_subtitles -> _adjust_duration -> _write_srt        *)
(* driven by words_to_srt.                                                 *)
(*                                                                         *)
(* Text is a sequence of one-character strings, so that len(), endswith()  *)
(* and string concatenation are computed as the code computes them.        *)
(* A time is a whole number ms of milliseconds and stands for the double    *)
(* nearest to ms/1000 seconds; comparisons and sums of times are taken on  *)
(* the millisecond values, and _srt_fmt_time follows the double arithmetic.*)
(* The generators are coroutines: pc says which of them is running and     *)
(* seg_pc / adj_pc where the suspended ones are parked.                    *)
(* Exceptions follow Python 3.7+ (PEP 479): a StopIteration that escapes   *)
(* a generator body surfaces as RuntimeError.                              *)
(***************************************************************************)
EXTENDS Integers, Sequences, FiniteSets, TLC

VARIABLES
    words,       \* the Word records the source will produce, in order
    wi,          \* number of words the segmenter has consumed so far
    subtitle,    \* _words_to_subtitles: buffer of Words
    len_line,    \* _words_to_subtitles: length of the current line
    line_index,  \* _words_to_subtitles: lines already closed in this cue
    seg_pc,      \* _words_to_subtitles: "loop" | "tail" | "end"
    seg_ret,     \* what the segmenter handed to its consumer last
    prev_sub,    \* _adjust_duration: pending previous cue
    this_sub,    \* _adjust_duration: cue just pulled (<<>> models None)
    adj_pc,      \* _adjust_duration: "first" | "loop" | "yield" | "last" | "end"
    fragment,    \* cue handed by the adjuster to _write_srt
    i,           \* _write_srt: enumerate() counter
    srt_file,    \* blocks written to the .srt file, in order
    pc,          \* who runs: "seg" | "adj" | "write" | "pull" | "done" | "raised"
    err,         \* exception that left words_to_srt ("" if none)
    seg_out,     \* history: cues as yielded by _words_to_subtitles
    adj_out,     \* history: cues as yielded by _adjust_duration
    filename_or_gs_path,  \* main: the input argument
    fs,          \* main: the file system, path -> content ("absent" if none)
    fs0,         \* history: the file system when main was called
    clock,       \* main: last value of int(time.time())
    val_err,     \* main: the val_err flag
    main_pc      \* main: position in main

pipeVars == <<words, wi, subtitle, len_line, line_index, seg_pc, seg_ret,
              prev_sub, this_sub, adj_pc, fragment, i, srt_file, pc, err,
              seg_out, adj_out>>

mainVars == <<filename_or_gs_path, fs, fs0, clock, val_err, main_pc>>

vars == <<pipeVars, mainVars>>

segVars == <<subtitle, len_line, line_index>>
adjVars == <<prev_sub, this_sub>>
outVars == <<fragment, i, srt_file>>

-----------------------------------------------------------------------------
(* Bounds of the model *)

MaxWords == 5
MaxClock == 2

-----------------------------------------------------------------------------
(* Program constants *)

split_on_length_gt == 32
split_on_pause_gt == 1000
allowed_lines == 2
min_sub_duration == 1000

CRLF == <<"\r", "\n">>
SPACE == <<" ">>
PUNCT == {".", "?", "!"}

-----------------------------------------------------------------------------
(* Word texts and inputs *)

Rep(c, n) == [k \in 1..n |-> c]

the == <<"t", "h", "e">>
quick == <<"q", "u", "i", "c", "k">>
brown == <<"b", "r", "o", "w", "n">>
fox_dot == <<"f", "o", "x", ".">>
why_q == <<"w", "h", "y", "?">>
medium == Rep("m", 17)
long == Rep("x", 33)
long_bang == Rep("y", 32) \o <<"!">>

Texts == {the, fox_dot, why_q, medium, long, long_bang}
TimedTexts == {fox_dot}
TimeVals == {0, 500, 1500}

Word(t, s, e) == [word |-> t, start_time |-> s, end_time |-> e]

\* Word sequences with arbitrary texts and back-to-back 300 ms timings.
RECURSIVE TextInputs(_)
TextInputs(n) ==
    IF n = 0 THEN {<<>>}
    ELSE LET S == TextInputs(n - 1)
         IN  S \cup { Append(s, Word(t, 300 * (n - 1), 300 * n)) :
                        s \in {u \in S : Len(u) = n - 1}, t \in Texts }

\* The data model: end_time >= start_time and non-decreasing start_time
\* (consecutive words may overlap in time).
WellTimed(ws) ==
    /\ \A k \in 1..Len(ws) : ws[k].end_time >= ws[k].start_time
    /\ \A k \in 1..(Len(ws) - 1) : ws[k].start_time <= ws[k + 1].start_time

\* Word sequences with every timing the data model allows over TimeVals.
RECURSIVE TimeInputs(_)
TimeInputs(n) ==
    IF n = 0 THEN {<<>>}
    ELSE LET S == TimeInputs(n - 1)
         IN  S \cup { w \in { Append(u, Word(t, s, e)) :
                                u \in {v \in S : Len(v) = n - 1},
                                t \in TimedTexts,
                                s \in TimeVals, e \in TimeVals } :
                      WellTimed(w) }

\* The worked examples of the specification.
ExampleFox == << Word(the, 0, 300), Word(quick, 300, 600),
                 Word(brown, 600, 900), Word(fox_dot, 900, 1300) >>
ExampleNear == << Word(fox_dot, 0, 100), Word(fox_dot, 100, 200),
                  Word(the, 500, 700) >>
ExampleFar == << Word(fox_dot, 0, 100), Word(fox_dot, 100, 200),
                 Word(the, 5000, 5200) >>
Examples == {ExampleFox, ExampleNear, ExampleFar}

\* Texts whose lengths meet the line-length limit exactly or nearly.
sentence16 == Rep("s", 15) \o <<".">>
word14 == Rep("w", 14)

BackToBack(ts) == [k \in 1..Len(ts) |-> Word(ts[k], 300 * (k - 1), 300 * k)]

\* a sentence end that does not fit on the line it arrives on
EdgeSentenceWrap == BackToBack(<<medium, sentence16, the>>)
\* a word that fills the line to split_on_length_gt, its space not counted
EdgeExactFit == BackToBack(<<medium, word14, fox_dot, fox_dot, the>>)
EdgeInputs == {EdgeSentenceWrap, EdgeExactFit}

Inputs == TextInputs(MaxWords)
          \cup TimeInputs(MaxWords)
          \cup Examples
          \cup EdgeInputs

-----------------------------------------------------------------------------
(* _words_to_subtitles *)

Last(q) == q[Len(q)]

\* word['word'].endswith(('.', '?', '!'))
EndsSentence(w) == Len(w.word) > 0 /\ Last(w.word) \in PUNCT

\* (variant: the limit is taken one character too high)
TooLong_loose(len, w) == len + Len(w.word) > split_on_length_gt + 1

\* len_line + len(word["word"]) > split_on_length_gt
TooLong(len, w) == len + Len(w.word) > split_on_length_gt

\* (variant: the cue is closed one line too late)
CueFull_late(li) == li + 1 = allowed_lines + 1

\* line_index + 1 == allowed_lines
CueFull(li) == li + 1 = allowed_lines

\* (variant: the line is counted but no separator is appended)
MarkLine_unmarked(sub) == sub

\* subtitle[-1]['word'] = subtitle[-1]['word'] + "\r\n"
MarkLine(sub) ==
    [sub EXCEPT ![Len(sub)].word = sub[Len(sub)].word \o CRLF]

\* word['word'] = word['word'] + ' '
Spaced(w) == [w EXCEPT !.word = w.word \o SPACE]

\* (variant: a pause longer than split_on_pause_gt also closes the line,
\* as the docstring announces)
SegWord_pause(st, w) ==
    LET too_long == TooLong(st.len_line, w)
        sentence == ~too_long /\ EndsSentence(w)
        pause    == /\ st.subtitle # <<>>
                    /\ w.start_time - Last(st.subtitle).end_time
                           > split_on_pause_gt
        add_line == too_long \/ sentence \/ pause
        sub1     == IF sentence THEN Append(st.subtitle, w) ELSE st.subtitle
        kept     == ~sentence
        yields   == add_line /\ CueFull(st.line_index)
        raises   == add_line /\ ~CueFull(st.line_index) /\ sub1 = <<>>
        sub2     == IF ~add_line THEN sub1
                    ELSE IF yields THEN <<>>
                    ELSE IF raises THEN sub1
                    ELSE MarkLine(sub1)
        len2     == IF add_line THEN 0 ELSE st.len_line
        li2      == IF ~add_line THEN st.line_index
                    ELSE IF yields THEN 0
                    ELSE st.line_index + 1
        w2       == Spaced(w)
    IN  IF raises
        THEN [subtitle |-> sub1, len_line |-> st.len_line,
              line_index |-> st.line_index,
              yields |-> FALSE, out |-> <<>>, raises |-> TRUE]
        ELSE [subtitle |-> IF kept THEN Append(sub2, w2) ELSE sub2,
              len_line |-> IF kept THEN len2 + Len(w2.word) ELSE len2,
              line_index |-> li2,
              yields |-> yields, out |-> IF yields THEN sub1 ELSE <<>>,
              raises |-> FALSE]

\* One iteration of "for word in words" on the segmenter state
\* st = [subtitle, len_line, line_index].  The result carries the new state,
\* whether a cue was yielded (and which), and whether subtitle[-1] raised
\* IndexError on an empty buffer.
SegWord(st, w) ==
    LET too_long == TooLong(st.len_line, w)
        sentence == ~too_long /\ EndsSentence(w)
        add_line == too_long \/ sentence
        sub1     == IF sentence THEN Append(st.subtitle, w) ELSE st.subtitle
        kept     == ~sentence            \* "word is not None"
        yields   == add_line /\ CueFull(st.line_index)
        raises   == add_line /\ ~CueFull(st.line_index) /\ sub1 = <<>>
        sub2     == IF ~add_line THEN sub1
                    ELSE IF yields THEN <<>>
                    ELSE IF raises THEN sub1
                    ELSE MarkLine(sub1)
        len2     == IF add_line THEN 0 ELSE st.len_line
        li2      == IF ~add_line THEN st.line_index
                    ELSE IF yields THEN 0
                    ELSE st.line_index + 1
        w2       == Spaced(w)
    IN  IF raises
        THEN [subtitle |-> sub1, len_line |-> st.len_line,
              line_index |-> st.line_index,
              yields |-> FALSE, out |-> <<>>, raises |-> TRUE]
        ELSE [subtitle |-> IF kept THEN Append(sub2, w2) ELSE sub2,
              len_line |-> IF kept THEN len2 + Len(w2.word) ELSE len2,
              line_index |-> li2,
              yields |-> yields, out |-> IF yields THEN sub1 ELSE <<>>,
              raises |-> FALSE]

\* subtitle = []; len_line = 0; line_index = 0
SegInit == [subtitle |-> <<>>, len_line |-> 0, line_index |-> 0]

\* The whole generator run on the word sequence ws from state st: the cues
\* it yields, in order, and whether it ended in IndexError.
RECURSIVE SegRun(_, _, _)
SegRun(st, ws, out) ==
    IF ws = <<>>
    THEN [out |-> IF st.subtitle # <<>> THEN Append(out, st.subtitle) ELSE out,
          raised |-> FALSE]
    ELSE LET r == SegWord(st, Head(ws))
         IN  IF r.raises
             THEN [out |-> out, raised |-> TRUE]
             ELSE SegRun([subtitle |-> r.subtitle, len_line |-> r.len_line,
                          line_index |-> r.line_index],
                         Tail(ws),
                         IF r.yields THEN Append(out, r.out) ELSE out)

SegState == [subtitle |-> subtitle, len_line |-> len_line,
             line_index |-> line_index]

Cue(c) == [stop |-> FALSE, cue |-> c]
Stop == [stop |-> TRUE, cue |-> <<>>]
Nothing == [stop |-> FALSE, cue |-> <<>>]

\* for word in words: ... (one word; the iteration is run to its end even
\* when it yields, since nothing reads the locals while it is suspended)
SegStep ==
    /\ pc = "seg" /\ seg_pc = "loop" /\ wi < Len(words)
    /\ LET r == SegWord(SegState, words[wi + 1])
       IN  /\ wi' = wi + 1
           /\ subtitle' = r.subtitle
           /\ len_line' = r.len_line
           /\ line_index' = r.line_index
           /\ IF r.raises
              THEN /\ pc' = "raised" /\ err' = "IndexError"
                   /\ UNCHANGED <<seg_ret, seg_out>>
              ELSE IF r.yields
              THEN /\ pc' = "adj" /\ seg_ret' = Cue(r.out)
                   /\ seg_out' = Append(seg_out, r.out)
                   /\ err' = err
              ELSE UNCHANGED <<pc, err, seg_ret, seg_out>>
    /\ UNCHANGED mainVars
    /\ UNCHANGED <<words, seg_pc, adjVars, adj_pc, outVars, adj_out>>

\* if subtitle and len(subtitle) > 0: yield subtitle
SegFlush ==
    /\ pc = "seg" /\ seg_pc = "loop" /\ wi = Len(words)
    /\ IF subtitle # <<>>
       THEN /\ seg_pc' = "tail" /\ seg_ret' = Cue(subtitle)
            /\ seg_out' = Append(seg_out, subtitle)
       ELSE /\ seg_pc' = "end" /\ seg_ret' = Stop
            /\ seg_out' = seg_out
    /\ pc' = "adj"
    /\ UNCHANGED mainVars
    /\ UNCHANGED <<words, wi, segVars, adjVars, adj_pc, outVars, err, adj_out>>

\* resumed after the final yield: the generator returns
SegReturn ==
    /\ pc = "seg" /\ seg_pc = "tail"
    /\ seg_pc' = "end" /\ seg_ret' = Stop /\ pc' = "adj"
    /\ UNCHANGED mainVars
    /\ UNCHANGED <<words, wi, segVars, adjVars, adj_pc, outVars, err,
                   seg_out, adj_out>>

-----------------------------------------------------------------------------
(* _adjust_duration *)

\* A cue's derived times: fragment[0]['start_time'], fragment[-1]['end_time']
StartOf(c) == c[1].start_time
EndOf(c) == c[Len(c)].end_time

\* (variant: the comparison is inverted)
LongEnough_inverted(prev) == EndOf(prev) - StartOf(prev) < min_sub_duration

\* prev_sub_duration >= min_sub_duration
LongEnough(prev) == EndOf(prev) - StartOf(prev) >= min_sub_duration

\* (variant: the end time is not clamped to the next cue)
FixedEnd_unclamped(prev, this) == StartOf(prev) + min_sub_duration

\* (variant: the two branches are swapped)
FixedEnd_swapped(prev, this) ==
    LET prev_start_plus_min == StartOf(prev) + min_sub_duration
    IN  IF prev_start_plus_min > StartOf(this)
        THEN prev_start_plus_min
        ELSE StartOf(this)

\* (variant: the minimum duration is subtracted instead of added)
FixedEnd_backwards(prev, this) ==
    LET prev_start_plus_min == StartOf(prev) - min_sub_duration
    IN  IF prev_start_plus_min > StartOf(this)
        THEN StartOf(this)
        ELSE prev_start_plus_min

\* the end time written into a too-short prev_sub
FixedEnd(prev, this) ==
    LET prev_start_plus_min == StartOf(prev) + min_sub_duration
    IN  IF prev_start_plus_min > StartOf(this)
        THEN StartOf(this)
        ELSE prev_start_plus_min

\* (variant: the too-short cue is passed through as it is)
Adjusted_unfixed(prev, this) == prev

\* (variant: the end time is written into the first word of the cue)
Adjusted_first_word(prev, this) ==
    IF LongEnough(prev)
    THEN prev
    ELSE [prev EXCEPT ![1].end_time = FixedEnd(prev, this)]

\* body of "for this_sub in subtitles": the cue that is yielded
Adjusted(prev, this) ==
    IF LongEnough(prev)
    THEN prev
    ELSE [prev EXCEPT ![Len(prev)].end_time = FixedEnd(prev, this)]

\* "if this_sub:" after the loop (None and [] are both falsy)
Truthy(sub) == sub # <<>>

\* prev_sub = next(subtitles); this_sub = None
AdjFirst ==
    /\ pc = "adj" /\ adj_pc = "first"
    /\ IF seg_ret.stop
       THEN \* StopIteration inside a generator body: RuntimeError
            /\ pc' = "raised" /\ err' = "RuntimeError"
            /\ UNCHANGED <<adjVars, adj_pc>>
       ELSE /\ prev_sub' = seg_ret.cue
            /\ this_sub' = <<>>
            /\ adj_pc' = "loop"
            /\ pc' = "seg" /\ err' = err
    /\ UNCHANGED mainVars
    /\ UNCHANGED <<words, wi, segVars, seg_pc, seg_ret, outVars,
                   seg_out, adj_out>>

\* (variant: the loop keeps pulling and yields nothing until the source
\* is exhausted)
AdjLoop_hoarding ==
    /\ pc = "adj" /\ adj_pc = "loop" /\ ~seg_ret.stop
    /\ this_sub' = seg_ret.cue
    /\ prev_sub' = seg_ret.cue
    /\ pc' = "seg"
    /\ UNCHANGED mainVars
    /\ UNCHANGED <<words, wi, segVars, seg_pc, seg_ret, adj_pc, outVars,
                   err, seg_out, adj_out>>

\* for this_sub in subtitles: ... yield prev_sub
AdjLoop ==
    /\ pc = "adj" /\ adj_pc = "loop" /\ ~seg_ret.stop
    /\ this_sub' = seg_ret.cue
    /\ prev_sub' = Adjusted(prev_sub, seg_ret.cue)
    /\ fragment' = prev_sub'
    /\ adj_out' = Append(adj_out, prev_sub')
    /\ adj_pc' = "yield"
    /\ pc' = "write"
    /\ UNCHANGED mainVars
    /\ UNCHANGED <<words, wi, segVars, seg_pc, seg_ret, i, srt_file, err,
                   seg_out>>

\* the loop is exhausted: if this_sub: yield this_sub
AdjExhausted ==
    /\ pc = "adj" /\ adj_pc = "loop" /\ seg_ret.stop
    /\ IF Truthy(this_sub)
       THEN /\ fragment' = this_sub
            /\ adj_out' = Append(adj_out, this_sub)
            /\ adj_pc' = "last"
            /\ pc' = "write"
       ELSE /\ adj_pc' = "end"
            /\ pc' = "done"
            /\ UNCHANGED <<fragment, adj_out>>
    /\ UNCHANGED mainVars
    /\ UNCHANGED <<words, wi, segVars, seg_pc, seg_ret, adjVars, i, srt_file,
                   err, seg_out>>

\* resumed after "yield prev_sub": prev_sub = this_sub, then the loop pulls
AdjResume ==
    /\ pc = "pull" /\ adj_pc = "yield"
    /\ prev_sub' = this_sub
    /\ adj_pc' = "loop"
    /\ pc' = "seg"
    /\ UNCHANGED mainVars
    /\ UNCHANGED <<words, wi, segVars, seg_pc, seg_ret, this_sub, outVars,
                   err, seg_out, adj_out>>

\* resumed after "yield this_sub": the generator returns, _write_srt ends
AdjReturn ==
    /\ pc = "pull" /\ adj_pc = "last"
    /\ adj_pc' = "end"
    /\ pc' = "done"
    /\ UNCHANGED mainVars
    /\ UNCHANGED <<words, wi, segVars, seg_pc, seg_ret, adjVars, outVars,
                   err, seg_out, adj_out>>

-----------------------------------------------------------------------------
(* _write_srt *)

Digit(d) == <<"0", "1", "2", "3", "4", "5", "6", "7", "8", "9">>[d + 1]

\* str(n) for n >= 0
RECURSIVE Str(_)
Str(n) == IF n < 10 THEN <<Digit(n)>> ELSE Str(n \div 10) \o <<Digit(n % 10)>>

\* '{:0w}'.format(n): zero-padded to at least w characters
RECURSIVE Pad(_, _)
Pad(q, w) == IF Len(q) >= w THEN q ELSE Pad(<<"0">> \o q, w)

\* 2^n mod m
RECURSIVE PowMod(_, _)
PowMod(n, m) == IF n = 0 THEN 1 % m ELSE (2 * PowMod(n - 1, m)) % m

\* Binary exponent of the double sec nearest to ms/1000 (ms >= 1):
\* the E with 2^E <= ms/1000 < 2^(E+1).
RECURSIVE ExpUp(_, _)
ExpUp(ms, E) == IF ms >= 1000 * 2^(E + 1) THEN ExpUp(ms, E + 1) ELSE E

RECURSIVE ExpDown(_, _)
ExpDown(ms, j) == IF ms * 2^j >= 1000 THEN 0 - j ELSE ExpDown(ms, j + 1)

Exponent(ms) == IF ms >= 1000 THEN ExpUp(ms, 0) ELSE ExpDown(ms, 1)

\* binary exponent of the gap between the integer r >= 1 and the double
\* just below it, counted like Exponent (one less when r is a power of 2)
RECURSIVE Log2(_)
Log2(r) == IF r < 2 THEN 0 ELSE 1 + Log2(r \div 2)

GapExponent(r) == IF r = 2^Log2(r) THEN Log2(r) - 1 ELSE Log2(r)

\* int((sec % 1) * 1000) where sec is the double nearest to ms/1000.
\* sec = ms/1000 + d with d the rounding error of the 53-bit significand:
\* rho is the remainder of ms * 2^(52-E) by 1000, so d < 0 exactly when the
\* quotient is rounded down (rho < 500, or the tie to an even quotient).
\* sec % 1 is exact, and the product (r + 1000 d) is rounded to a double
\* again: it reaches the integer r only if 1000 |d| is at most half the gap
\* below r; otherwise int() truncates it to r - 1.
FloatMillis(ms) ==
    LET r == ms % 1000
        E == Exponent(ms)
        n == 52 - E
        rho == (r * PowMod(n, 1000)) % 1000
        odd == (((ms % 2000) * PowMod(n, 2000)) % 2000) \div 1000 = 1
        down == rho < 500 \/ (rho = 500 /\ ~odd)
        d == E + 1 - GapExponent(r)
        reaches == IF d >= 0 THEN rho * 2^d <= 1 ELSE rho <= 2^(0 - d)
    IN  IF r = 0 \/ rho = 0 \/ ~down \/ reaches THEN r ELSE r - 1

\* _srt_fmt_time(sec), for sec the double nearest to ms/1000.  The three
\* floor divisions are exact, since a double that is not a whole second is
\* further from the next whole second than its rounding error.
_srt_fmt_time(ms) ==
    Pad(Str(ms \div 3600000), 2) \o <<":">> \o
    Pad(Str((ms % 3600000) \div 60000), 2) \o <<":">> \o
    Pad(Str((ms % 60000) \div 1000), 2) \o <<",">> \o
    Pad(Str(FloatMillis(ms)), 3)

ARROW == <<" ", "-", "-", ">", " ">>

\* ''.join(record['word'] for record in fragment)
RECURSIVE Join(_)
Join(c) == IF c = <<>> THEN <<>> ELSE Head(c).word \o Join(Tail(c))

\* (variant: the index line carries enumerate()'s zero-based counter)
Block_zero_based(n, frag) ==
    [index |-> Str(n),
     timecode |-> _srt_fmt_time(StartOf(frag)) \o ARROW
                  \o _srt_fmt_time(EndOf(frag)),
     sentence |-> Join(frag)]

\* the three text lines of one block (the fourth line is empty)
Block(n, frag) ==
    [index |-> Str(n + 1),
     timecode |-> _srt_fmt_time(StartOf(frag)) \o ARROW
                  \o _srt_fmt_time(EndOf(frag)),
     sentence |-> Join(frag)]

\* body of "for i, fragment in enumerate(subtitles)"
Write ==
    /\ pc = "write"
    /\ srt_file' = Append(srt_file, Block(i, fragment))
    /\ i' = i + 1
    /\ pc' = "pull"
    /\ UNCHANGED mainVars
    /\ UNCHANGED <<words, wi, segVars, seg_pc, seg_ret, adjVars, adj_pc,
                   fragment, err, seg_out, adj_out>>

-----------------------------------------------------------------------------
(* main.py: main *)

\* A path is a base name, an appended ".jsonl" or nothing, and the
\* timestamp of an appended ".<timestamp>.bak" (0 if none).
Path(b, x, t) == [base |-> b, ext |-> x, bak |-> t]

srt_filename == Path("out.srt", "", 0)

\* json_filename = srt_filename + ".jsonl"
JsonName(p) == [p EXCEPT !.ext = ".jsonl"]
json_filename == JsonName(srt_filename)

\* f"{filename}.{timestamp}.bak"
BakName(p, t) == [p EXCEPT !.bak = t]

GsInput == Path("gs://bucket/a.flac", "", 0)
JsonlInput == Path("in", ".jsonl", 0)
AudioInput == Path("in.flac", "", 0)
MissingInput == Path("missing.flac", "", 0)

\* the inputs main may be given; the last two are the output path itself
\* and the dump that lies next to it
MainInputs == {GsInput, JsonlInput, AudioInput, MissingInput,
               srt_filename, json_filename}

Timestamps == 1..MaxClock

OutPaths == {srt_filename, json_filename}
BakPaths == {BakName(p, t) : p \in OutPaths, t \in Timestamps}
AllPaths == OutPaths \cup BakPaths \cup {JsonlInput, AudioInput}

\* content a path held before the run, content written by the run
Old(p) == <<"old", p>>
New == <<"new">>
Absent == <<"absent">>

\* filename_or_gs_path.startswith("gs://"), .endswith(".jsonl")
IsGsPath(p) == p = GsInput
IsJsonl(p) == p.bak = 0 /\ p.ext = ".jsonl"

\* os.path.isfile(filename)
IsFile(f, p) == p \in DOMAIN f /\ f[p] # Absent

\* os.rename(src, dst): dst is replaced if it exists
Rename(f, src, dst) == [f EXCEPT ![dst] = f[src], ![src] = Absent]

\* (variant: the file is left where it is)
BackupIfExists_never(f, filename, timestamp) == f

\* backup_if_exists(filename), with int(time.time()) = timestamp
BackupIfExists(f, filename, timestamp) ==
    IF IsFile(f, filename)
    THEN Rename(f, filename, BakName(filename, timestamp))
    ELSE f

\* open(filename, "w"): the file is created or truncated
OpenForWriting(f, filename) == [f EXCEPT ![filename] = New]

\* os.remove(filename)
Remove(f, filename) == [f EXCEPT ![filename] = Absent]

\* the file systems main may find: any of the output paths and of their
\* backups may exist already; the local inputs exist
InitialFs ==
    { [p \in AllPaths |->
          IF p \in E \cup {JsonlInput, AudioInput} THEN Old(p) ELSE Absent] :
      E \in SUBSET (OutPaths \cup {BakName(p, 1) : p \in OutPaths}) }

\* backup_if_exists(srt_filename)
MainBackupSrt ==
    /\ main_pc = "backup_srt"
    /\ \E t \in Timestamps :
          /\ t >= clock
          /\ clock' = t
          /\ fs' = BackupIfExists(fs, srt_filename, t)
    /\ main_pc' = "open_srt"
    /\ UNCHANGED <<filename_or_gs_path, fs0, val_err>>
    /\ UNCHANGED pipeVars

\* with open(srt_filename, "w") as srt_file:
MainOpenSrt ==
    /\ main_pc = "open_srt"
    /\ fs' = OpenForWriting(fs, srt_filename)
    /\ main_pc' = "branch"
    /\ UNCHANGED <<filename_or_gs_path, fs0, clock, val_err>>
    /\ UNCHANGED pipeVars

\* if startswith("gs://") ... elif os.path.isfile(...) ... else: val_err = True
MainBranch ==
    /\ main_pc = "branch"
    /\ IF IsGsPath(filename_or_gs_path)
       THEN main_pc' = "backup_json" /\ val_err' = val_err
       ELSE IF IsFile(fs, filename_or_gs_path)
       THEN /\ main_pc' = IF IsJsonl(filename_or_gs_path)
                          THEN "convert" ELSE "backup_json"
            /\ val_err' = val_err
       ELSE main_pc' = "exit" /\ val_err' = TRUE
    /\ UNCHANGED <<filename_or_gs_path, fs, fs0, clock>>
    /\ UNCHANGED pipeVars

\* json_filename = srt_filename + ".jsonl"; backup_if_exists(json_filename)
MainBackupJson ==
    /\ main_pc = "backup_json"
    /\ \E t \in Timestamps :
          /\ t >= clock
          /\ clock' = t
          /\ fs' = BackupIfExists(fs, json_filename, t)
    /\ main_pc' = "open_json"
    /\ UNCHANGED <<filename_or_gs_path, fs0, val_err>>
    /\ UNCHANGED pipeVars

\* with open(json_filename, "w") as json_file:
MainOpenJson ==
    /\ main_pc = "open_json"
    /\ fs' = OpenForWriting(fs, json_filename)
    /\ main_pc' = "convert"
    /\ UNCHANGED <<filename_or_gs_path, fs0, clock, val_err>>
    /\ UNCHANGED pipeVars

\* words_to_srt(...) / jsonl_to_srt(...): writes into the files opened for
\* writing and either returns or raises (upload, recognition, empty source)
MainConvert ==
    /\ main_pc = "convert"
    /\ \E raises \in BOOLEAN :
          main_pc' = IF raises THEN "raised" ELSE "exit"
    /\ UNCHANGED <<filename_or_gs_path, fs, fs0, clock, val_err>>
    /\ UNCHANGED pipeVars

\* if val_err: os.remove(srt_filename); raise ValueError(...)
MainExit ==
    /\ main_pc = "exit"
    /\ IF val_err
       THEN fs' = Remove(fs, srt_filename) /\ main_pc' = "raised"
       ELSE fs' = fs /\ main_pc' = "done"
    /\ UNCHANGED <<filename_or_gs_path, fs0, clock, val_err>>
    /\ UNCHANGED pipeVars

-----------------------------------------------------------------------------
(* words_to_srt *)

Init ==
    /\ words \in Inputs
    /\ wi = 0
    /\ subtitle = <<>> /\ len_line = 0 /\ line_index = 0
    /\ seg_pc = "loop" /\ seg_ret = Nothing
    /\ prev_sub = <<>> /\ this_sub = <<>> /\ adj_pc = "first"
    /\ fragment = <<>> /\ i = 0 /\ srt_file = <<>>
    /\ pc = "seg" /\ err = ""
    /\ seg_out = <<>> /\ adj_out = <<>>
    \* main is inside jsonl_to_srt, the output file freshly opened
    /\ filename_or_gs_path = JsonlInput
    /\ fs0 = [p \in AllPaths |-> IF p = JsonlInput THEN Old(p) ELSE Absent]
    /\ fs = OpenForWriting(fs0, srt_filename)
    /\ clock = 1 /\ val_err = FALSE /\ main_pc = "convert"

Next ==
    \/ SegStep
    \/ SegFlush
    \/ SegReturn
    \/ AdjFirst
    \/ AdjLoop
    \/ AdjExhausted
    \/ AdjResume
    \/ AdjReturn
    \/ Write

Spec == Init /\ [][Next]_vars

\* main alone, the conversion it calls taken as one step
InitMain ==
    /\ words = <<>> /\ wi = 0
    /\ subtitle = <<>> /\ len_line = 0 /\ line_index = 0
    /\ seg_pc = "loop" /\ seg_ret = Nothing
    /\ prev_sub = <<>> /\ this_sub = <<>> /\ adj_pc = "first"
    /\ fragment = <<>> /\ i = 0 /\ srt_file = <<>>
    /\ pc = "seg" /\ err = ""
    /\ seg_out = <<>> /\ adj_out = <<>>
    /\ filename_or_gs_path \in MainInputs
    /\ fs0 \in InitialFs
    /\ fs = fs0
    /\ clock = 1 /\ val_err = FALSE /\ main_pc = "backup_srt"

NextMain ==
    \/ MainBackupSrt
    \/ MainOpenSrt
    \/ MainBranch
    \/ MainBackupJson
    \/ MainOpenJson
    \/ MainConvert
    \/ MainExit

SpecMain == InitMain /\ [][NextMain]_vars

-----------------------------------------------------------------------------
(* Properties *)

Finished == pc \in {"done", "raised"}

Min(a, b) == IF a <= b THEN a ELSE b

\* number of "\r\n" markers in a text
Markers(q) ==
    Cardinality({k \in 1..(Len(q) - 1) : q[k] = "\r" /\ q[k + 1] = "\n"})

\* a cue whose input duration is below min_sub_duration
TooShort(c) == c[Len(c)].end_time - c[1].start_time < min_sub_duration

\* cue k of the adjuster's input has a successor
HasNext(k) == k < Len(seg_out)

\* C1: every cue yielded by _words_to_subtitles is non-empty and holds at
\* most allowed_lines - 1 line-separator markers.
C1_CuesNonEmptyAtMostTwoLines ==
    \A k \in 1..Len(seg_out) :
        /\ seg_out[k] # <<>>
        /\ Markers(Join(seg_out[k])) <= allowed_lines - 1

\* a two-line cue was yielded inside the loop and a further cue after it
C1_Witness ==
    /\ Len(seg_out) >= 2
    /\ Markers(Join(seg_out[1])) = allowed_lines - 1
    /\ Len(seg_out[1]) >= 2

C3_EndNeverDecreases ==
    \A k \in 1..Len(adj_out) : EndOf(adj_out[k]) >= EndOf(seg_out[k])

\* C3 (amended): a yielded cue ends no earlier than it did on input, except
\* a too-short cue whose input end_time lies after the start of the next
\* cue, which is cut back to that start.
C3_EndDecreasesOnlyOnOverlap ==
    \A k \in 1..Len(adj_out) :
        IF HasNext(k) /\ TooShort(seg_out[k])
                      /\ EndOf(seg_out[k]) > StartOf(seg_out[k + 1])
        THEN EndOf(adj_out[k]) = StartOf(seg_out[k + 1])
        ELSE EndOf(adj_out[k]) >= EndOf(seg_out[k])

\* a too-short cue was clamped to the next cue's start and grew by it
C3_Witness ==
    \E k \in 1..Len(adj_out) :
        /\ HasNext(k)
        /\ TooShort(seg_out[k])
        /\ StartOf(seg_out[k]) + min_sub_duration > StartOf(seg_out[k + 1])
        /\ EndOf(adj_out[k]) = StartOf(seg_out[k + 1])
        /\ EndOf(adj_out[k]) > EndOf(seg_out[k])

\* C4 (as claimed): when the pipeline has completed, _adjust_duration has
\* yielded one cue per input cue, in order, with the same words, and the
\* last one exactly as it came in.
C4_OneCuePerInputCue ==
    pc = "done" =>
        /\ Len(adj_out) = Len(seg_out)
        /\ \A k \in 1..Len(adj_out) :
              /\ Len(adj_out[k]) = Len(seg_out[k])
              /\ \A j \in 1..Len(adj_out[k]) :
                    /\ adj_out[k][j].word = seg_out[k][j].word
                    /\ adj_out[k][j].start_time = seg_out[k][j].start_time
        /\ Len(seg_out) >= 1 => adj_out[Len(seg_out)] = seg_out[Len(seg_out)]

\* text of all written blocks, in order
RECURSIVE Rendered(_)
Rendered(f) == IF f = <<>> THEN <<>> ELSE Head(f).sentence \o Rendered(Tail(f))

IsFiller(c) == c \in {"\r", "\n", " "}
NotFiller(c) == ~IsFiller(c)

\* C5 (as claimed): when the pipeline has completed, the rendered text
\* without line separators and spaces is the original word text, in order.
C5_TextPreserved ==
    pc = "done" => SelectSeq(Rendered(srt_file), NotFiller) = Join(words)

\* C6 (as claimed): on a source with no words the pipeline completes
\* without raising and writes nothing.
C6_EmptySourceTerminatesNormally ==
    (words = <<>> /\ Finished) => (pc = "done" /\ err = "" /\ srt_file = <<>>)

\* C7 (as claimed): a word that arrives on a fresh line raises no error,
\* and unless it ends a sentence it causes no break and no cue, and is
\* placed on that line.
C7_FreshLineNeverRejected ==
    [][ (pc = "seg" /\ seg_pc = "loop" /\ wi < Len(words) /\ len_line = 0
         /\ wi' = wi + 1)
        => /\ err' = ""
           /\ ~EndsSentence(words[wi + 1]) =>
                 /\ seg_out' = seg_out
                 /\ line_index' = line_index
                 /\ subtitle' = Append(subtitle, Spaced(words[wi + 1])) ]_vars

\* C8: every yielded cue that has a successor lasts at least
\* min_sub_duration or ends exactly where its successor starts.
C8_ShortOnlyWhenClamped ==
    \A k \in 1..Len(adj_out) :
        HasNext(k) =>
            \/ EndOf(adj_out[k]) - StartOf(adj_out[k]) >= min_sub_duration
            \/ EndOf(adj_out[k]) = StartOf(seg_out[k + 1])

\* a cue was re-timed and still falls short, held back by its successor
C8_Witness ==
    \E k \in 1..Len(adj_out) :
        /\ HasNext(k)
        /\ EndOf(adj_out[k]) # EndOf(seg_out[k])
        /\ EndOf(adj_out[k]) - StartOf(adj_out[k]) < min_sub_duration
        /\ EndOf(adj_out[k]) = StartOf(seg_out[k + 1])

\* C9: a yielded cue that has a successor keeps its end_time when it is
\* long enough, and otherwise ends at min(start + min_sub_duration,
\* successor's start); the two worked examples give 500 and 1000.
C9_AdjustedEndFormula ==
    /\ \A k \in 1..Len(adj_out) :
          HasNext(k) =>
              EndOf(adj_out[k]) =
                  IF EndOf(seg_out[k]) - StartOf(seg_out[k]) >= min_sub_duration
                  THEN EndOf(seg_out[k])
                  ELSE Min(StartOf(seg_out[k]) + min_sub_duration,
                           StartOf(seg_out[k + 1]))
    /\ (words = ExampleNear /\ Len(adj_out) >= 1) => EndOf(adj_out[1]) = 500
    /\ (words = ExampleFar /\ Len(adj_out) >= 1) => EndOf(adj_out[1]) = 1000

\* the near-gap example has run: cue 0-200 followed by a cue starting at 500
C9_Witness ==
    /\ words = ExampleNear
    /\ pc = "done"
    /\ Len(adj_out) = 2
    /\ StartOf(seg_out[1]) = 0 /\ EndOf(seg_out[1]) = 200
    /\ StartOf(seg_out[2]) = 500
    /\ EndOf(adj_out[1]) = 500

FoxSentence == the \o SPACE \o quick \o SPACE \o brown \o SPACE
               \o fox_dot \o SPACE
FoxTimecode == <<"0", "0", ":", "0", "0", ":", "0", "0", ",", "0", "0", "0">>
               \o ARROW \o
               <<"0", "0", ":", "0", "0", ":", "0", "1", ",", "3", "0", "0">>

\* C10 (as claimed): the four-word example ends with exactly one written
\* block, text "the quick brown fox. ", 00:00:00,000 --> 00:00:01,300.
C10_FoxExample ==
    (words = ExampleFox /\ Finished) =>
        /\ pc = "done"
        /\ Len(srt_file) = 1
        /\ srt_file[1].sentence = FoxSentence
        /\ srt_file[1].timecode = FoxTimecode

\* value of a decimal digit character, and of a decimal numeral
DigitVal(c) == CHOOSE d \in 0..9 : Digit(d) = c

RECURSIVE ParseNat(_)
ParseNat(q) ==
    IF q = <<>> THEN 0
    ELSE 10 * ParseNat(SubSeq(q, 1, Len(q) - 1)) + DigitVal(q[Len(q)])

\* C11: the k-th written block carries the index k and the text of the k-th
\* cue the adjuster yielded.
C11_IndicesContiguousInOrder ==
    /\ Len(srt_file) <= Len(adj_out)
    /\ \A k \in 1..Len(srt_file) :
          /\ ParseNat(srt_file[k].index) = k
          /\ srt_file[k].sentence = Join(adj_out[k])

\* three blocks with different texts have been written
C11_Witness ==
    /\ pc = "done"
    /\ Len(srt_file) = 3
    /\ srt_file[1].sentence # srt_file[2].sentence
    /\ srt_file[2].sentence # srt_file[3].sentence

\* C12: the cues leave the segmenter, and then the adjuster, in
\* non-decreasing start_time order, and every adjusted cue ends no earlier
\* than it starts.
C12_CuesTimeOrdered ==
    /\ \A k \in 1..(Len(seg_out) - 1) :
          StartOf(seg_out[k]) <= StartOf(seg_out[k + 1])
    /\ \A k \in 1..(Len(adj_out) - 1) :
          StartOf(adj_out[k]) <= StartOf(adj_out[k + 1])
    /\ \A k \in 1..Len(adj_out) : EndOf(adj_out[k]) >= StartOf(adj_out[k])

\* three cues came out, one of them re-timed, with increasing start times
C12_Witness ==
    /\ Len(adj_out) = 3
    /\ StartOf(adj_out[1]) < StartOf(adj_out[2])
    /\ StartOf(adj_out[2]) < StartOf(adj_out[3])
    /\ \E k \in 1..2 : EndOf(adj_out[k]) # EndOf(seg_out[k])

\* the timecode of a time of ms whole milliseconds, fields decomposed
\* exactly: hours, minutes 0..59, seconds 0..59, milliseconds 0..999
ExactTime(ms) ==
    Pad(Str(ms \div 3600000), 2) \o <<":">> \o
    Pad(Str((ms \div 60000) % 60), 2) \o <<":">> \o
    Pad(Str((ms \div 1000) % 60), 2) \o <<",">> \o
    Pad(Str(ms % 1000), 3)

\* C13 (as claimed): the timecode line of every written block shows the
\* cue's start and end decomposed exactly into HH:MM:SS,mmm.
C13_TimecodeExact ==
    \A k \in 1..Len(srt_file) :
        srt_file[k].timecode =
            ExactTime(StartOf(adj_out[k])) \o ARROW \o
            ExactTime(EndOf(adj_out[k]))

\* a text without the spaces and line separators at its end
RECURSIVE Bare(_)
Bare(t) ==
    IF t # <<>> /\ IsFiller(t[Len(t)]) THEN Bare(SubSeq(t, 1, Len(t) - 1))
    ELSE t

\* the word's own text ends in '.', '?' or '!'
SentenceWord(w) == Bare(w.word) # <<>> /\ Last(Bare(w.word)) \in PUNCT

\* word j is the last word of its line in cue c
EndsLine(c, j) == j = Len(c) \/ Last(c[j].word) = "\n"

\* C14 (as claimed): in every cue the segmenter yields, a sentence-ending
\* word is the last word of its line.
C14_SentenceEndClosesLine ==
    \A k \in 1..Len(seg_out) :
        \A j \in 1..Len(seg_out[k]) :
            SentenceWord(seg_out[k][j]) => EndsLine(seg_out[k], j)

\* words a..b of cue c form one line
IsLine(c, a, b) ==
    /\ a <= b
    /\ a = 1 \/ Last(c[a - 1].word) = "\n"
    /\ EndsLine(c, b)
    /\ \A j \in a..(b - 1) : Last(c[j].word) # "\n"

\* characters of the line a..b of cue c, the line separator left out
RECURSIVE LineLen(_, _, _)
LineLen(c, a, b) ==
    IF a > b THEN 0
    ELSE LineLen(c, a, b - 1) + Len(c[b].word)
         - (IF Last(c[b].word) = "\n" THEN 2 ELSE 0)

\* 1 if the last word of the line a..b carries a trailing space
LastSpace(c, b) ==
    LET t == c[b].word
        u == IF Last(t) = "\n" THEN SubSeq(t, 1, Len(t) - 2) ELSE t
    IN  IF u # <<>> /\ Last(u) = " " THEN 1 ELSE 0

\* C15 (as claimed): no line of two or more words in a yielded cue is longer
\* than split_on_length_gt, every word's trailing space counted.
C15_LineWithinLimitSpacesCounted ==
    \A k \in 1..Len(seg_out) :
        \A a, b \in 1..Len(seg_out[k]) :
            (IsLine(seg_out[k], a, b) /\ a < b)
            => LineLen(seg_out[k], a, b) <= split_on_length_gt

\* C15 (amended): a break is decided before a word whenever len_line plus
\* the word's length, its own trailing space not counted, exceeds
\* split_on_length_gt; and no line of two or more words in a yielded cue is
\* longer than split_on_length_gt once the trailing space of its last word
\* is left out.
C15_LineWithinLimitLastSpaceLeftOut ==
    /\ [](\A k \in 1..Len(seg_out) :
             \A a, b \in 1..Len(seg_out[k]) :
                 (IsLine(seg_out[k], a, b) /\ a < b)
                 => LineLen(seg_out[k], a, b) - LastSpace(seg_out[k], b)
                        <= split_on_length_gt)
    /\ [][ (pc = "seg" /\ seg_pc = "loop" /\ wi < Len(words) /\ wi' = wi + 1
            /\ len_line + Len(words[wi + 1].word) > split_on_length_gt)
           => \/ err' = "IndexError"
              \/ seg_out' # seg_out
              \/ line_index' = line_index + 1 ]_vars

\* a yielded cue holds a two-word line of exactly split_on_length_gt
\* characters without, and one more with, the last word's trailing space
C15_Witness ==
    \E k \in 1..Len(seg_out) :
        \E a, b \in 1..Len(seg_out[k]) :
            /\ IsLine(seg_out[k], a, b) /\ a < b
            /\ LastSpace(seg_out[k], b) = 1
            /\ LineLen(seg_out[k], a, b) = split_on_length_gt + 1

\* the texts of the words of each cue, line separators included
Grouping(cues) ==
    [k \in 1..Len(cues) |-> [j \in 1..Len(cues[k]) |-> cues[k][j].word]]

\* the same texts with pauses of 1900 ms between the words, and with all
\* words at time 0
Spread(ws) ==
    [k \in 1..Len(ws) |-> Word(ws[k].word, 2000 * k, 2000 * k + 100)]
Squeezed(ws) == [k \in 1..Len(ws) |-> Word(ws[k].word, 0, 0)]

C17_OneCueLookahead ==
    /\ [](/\ Len(adj_out) <= Len(seg_out)
          /\ Len(seg_out) - Len(adj_out) <= 2)
    /\ [][ adj_out' # adj_out
           => \/ Len(seg_out) = Len(adj_out') + 1
              \/ (seg_pc = "end" /\ Len(seg_out) = Len(adj_out')) ]_vars
    /\ [][ seg_out' # seg_out => Len(seg_out') - Len(adj_out) <= 2 ]_vars

\* the third cue has been pulled while the second is still pending:
\* two cues are held, one has been yielded and written
C17_Witness ==
    /\ pc = "adj" /\ adj_pc = "loop"
    /\ Len(seg_out) = 3
    /\ Len(adj_out) = 1
    /\ Len(srt_file) = 1

\* cue d is cue c with at most the end_time of its last word changed
SameButLastEnd(c, d) ==
    /\ Len(d) = Len(c)
    /\ \A j \in 1..Len(c) :
          /\ d[j].word = c[j].word
          /\ d[j].start_time = c[j].start_time
          /\ j < Len(c) => d[j].end_time = c[j].end_time

\* C18: every cue the adjuster yields is the cue the segmenter yielded
\* with at most the end_time of its last word changed; the written text is
\* the segmenter's; and a step of _write_srt changes no cue.
C18_OnlyLastEndTimeChanges ==
    /\ [](\A k \in 1..Len(adj_out) : SameButLastEnd(seg_out[k], adj_out[k]))
    /\ [](\A k \in 1..Len(srt_file) :
             srt_file[k].sentence = Join(seg_out[k]))
    /\ [][ pc = "write"
           => /\ fragment' = fragment
              /\ prev_sub' = prev_sub
              /\ this_sub' = this_sub
              /\ adj_out' = adj_out
              /\ seg_out' = seg_out ]_vars

\* a cue of two words went through with a changed end and was written
C18_Witness ==
    \E k \in 1..Len(srt_file) :
        /\ Len(adj_out[k]) >= 2
        /\ EndOf(adj_out[k]) # EndOf(seg_out[k])
        /\ adj_out[k][1].end_time = seg_out[k][1].end_time

\* C20: between words, 0 <= line_index < allowed_lines, line_index is the
\* number of line separators in the buffer, and a positive line_index means
\* a non-empty buffer; and a word on which a cue is yielded leaves the
\* buffer, len_line and line_index reset, holding at most that word.
C20_SegmenterStateInvariant ==
    /\ [](/\ line_index >= 0 /\ line_index < allowed_lines
          /\ Markers(Join(subtitle)) = line_index
          /\ line_index > 0 => subtitle # <<>>)
    /\ [][ (seg_out' # seg_out /\ wi' = wi + 1)
           => LET w == words[wi + 1]
                  consumed == Last(Last(seg_out')).word = w.word
              IN  /\ line_index' = 0
                  /\ consumed => (subtitle' = <<>> /\ len_line' = 0)
                  /\ ~consumed => /\ subtitle' = <<Spaced(w)>>
                                  /\ len_line' = Len(w.word) + 1 ]_vars

\* a cue has just been yielded on a word that was kept for the next cue,
\* after an earlier state with a closed line
C20_Witness ==
    /\ pc = "adj" /\ seg_pc = "loop"
    /\ Len(seg_out) >= 1
    /\ Markers(Join(Last(seg_out))) = 1
    /\ Len(subtitle) = 1
    /\ line_index = 0
    /\ len_line = Len(subtitle[1].word)

\* C19: a file that existed at srt_filename or at the .jsonl dump path
\* when main was called keeps its content, at that path or at a .bak name
\* of it, through every step of main; and such a path is opened for writing
\* only when no file is there any more.
C19_BackupBeforeOverwrite ==
    /\ [](\A p \in OutPaths :
             fs0[p] # Absent
             => \E q \in {p} \cup {BakName(p, t) : t \in Timestamps} :
                   fs[q] = Old(p))
    /\ [][ \A p \in OutPaths :
              (fs'[p] = New /\ fs[p] # New) => fs[p] = Absent ]_vars

\* the invalid-input branch has removed the new output file and raised,
\* and the output file that existed before lies at its .bak name
C19_Witness ==
    /\ main_pc = "raised" /\ val_err
    /\ fs0[srt_filename] # Absent
    /\ fs[srt_filename] = Absent
    /\ \E t \in Timestamps : fs[BakName(srt_filename, t)] = Old(srt_filename)

=============================================================================
